---- MODULE Spec2Model ----
(***************************************************************************)
(* Transport-and-framing layer of the irc client:                          *)
(*   proto/line.rs   LineCodec: byte buffer <-> text frames                *)
(*   client/conn.rs  Connection / ConnectionFuture: establishment and      *)
(*                   dispatch over the three transport variants            *)
(* Bytes are integers 0..255, text is a sequence of Unicode scalar values. *)
(***************************************************************************)
EXTENDS Integers, Sequences, FiniteSets, TLC

VARIABLES
  encoding,   \* LineCodec.encoding: the name of the codec's encoding
  buf,        \* the EasyBuf handed to decode
  out,        \* the Vec<u8> handed to encode
  last,       \* the last codec call: operation, buffer before it, argument, result
  snapshot,   \* decode buffer as it was when bytes last arrived
  results,    \* results of the decode calls made since then
  fed,        \* every byte that ever entered the decode buffer
  frames,     \* every frame decode returned
  sent,       \* the texts handed to encode, in order
  config,     \* the Config an establishment was asked for (never written)
  pc,         \* "start", "polling" (a ConnectionFuture exists), "ready", "failed"
  future,     \* the ConnectionFuture: its variant and the domain it carries
  tcp,        \* the TCP connect: "idle", "pending", "connected", "failed"
  tls,        \* the TLS handshake: "idle", "pending", "done", "failed"
  builder,    \* what the TlsConnector builder was given
  conn,       \* the Connection's variant, "none" while there is none
  error,      \* the error establishment returned
  trace,      \* what establishment did, in order: logs, file reads, network
  polls,      \* what each poll of the future returned
  stream,     \* bytes of the underlying stream not yet read by the transport
  received,   \* what each receive-next returned
  wire,       \* bytes written to the underlying stream, in order
  log,        \* the messages the write capture has recorded
  sink        \* the last send, flush or capture-view call and what it returned

codecVars == <<encoding, buf, out, last, snapshot, results, fed, frames, sent>>

sinkVars == <<wire, log, sink>>

connVars ==
  <<config, pc, future, tcp, tls, builder, conn, error, trace, polls, stream, received,
    wire, log, sink>>

vars ==
  <<encoding, buf, out, last, snapshot, results, fed, frames, sent,
    config, pc, future, tcp, tls, builder, conn, error, trace, polls, stream, received,
    wire, log, sink>>

----------------------------------------------------------------------------
(* Bounds of the model *)

\* bytes fed to the decode buffer, one at a time
MaxStream == 4
\* decode calls between two arrivals of bytes
MaxCalls == 5
\* encode calls plus the characters handed to them, all calls together
MaxEncodeWork == 4

\* characters of a simulated connection's initial payload
MaxPayload == 4
\* polls of one ConnectionFuture
MaxPolls == 3
\* receive-next calls on one Connection
MaxReceives == 4

\* the frame terminator b'\n'
LF == 10

\* bytes the peer sends: LF, CR, 'A', and the UTF-8 pair C3 A9
FeedBytes == {10, 13, 65, 195, 169}

\* characters of the texts handed to encode: LF, CR, 'A', U+00E9 and U+010A,
\* which windows-1252 lacks and whose UTF-16 form has a byte 0x0A
Chars == {10, 13, 65, 233, 266}

\* b"NICK foo\r\n"
NickLine == <<78, 73, 67, 75, 32, 102, 111, 111, 13, 10>>

\* "NICK foo\r"
NickText == <<78, 73, 67, 75, 32, 102, 111, 111, 13>>

SeqsUpTo(S, n) == UNION {[1..k -> S] : k \in 0..n}

\* what the caller hands to encode: a text, with or without its terminator
Texts == SeqsUpTo(Chars, MaxEncodeWork - 1)

----------------------------------------------------------------------------
(* The encoding crate, as LineCodec uses it *)

\* names of the encodings a LineCodec is instantiated with
Encodings == {"utf-8", "windows-1252", "utf-16le", "utf-16be"}

\* WHATWG index of windows-1252 for the bytes 0x80..0x9F
Index1252 ==
  <<8364, 129, 8218, 402, 8222, 8230, 8224, 8225, 710, 8240, 352, 8249, 338,
    141, 381, 143, 144, 8216, 8217, 8220, 8221, 8226, 8211, 8212, 732, 8482,
    353, 8250, 339, 157, 382, 376>>

DecOk(t) == [ok |-> TRUE, data |-> t]
DecErr(t) == [ok |-> FALSE, data |-> t]

\* what a decoder trap does with an invalid sequence: Replace writes U+FFFD
\* and goes on, Strict makes the whole call fail
Trapped(trap, rest) ==
  IF trap = "Replace" /\ rest.ok THEN DecOk(<<65533>> \o rest.data)
  ELSE DecErr(<<>>)

Emit(c, rest) == IF rest.ok THEN DecOk(<<c>> \o rest.data) ELSE rest

\* number of continuation bytes a UTF-8 lead byte asks for (0: not a lead)
Utf8Need(b) ==
  IF b >= 194 /\ b <= 223 THEN 1
  ELSE IF b >= 224 /\ b <= 239 THEN 2
  ELSE IF b >= 240 /\ b <= 244 THEN 3
  ELSE 0

\* range of the byte that may follow lead byte b as its j-th continuation
Utf8Lo(b, j) ==
  IF j = 1 /\ b = 224 THEN 160 ELSE IF j = 1 /\ b = 240 THEN 144 ELSE 128
Utf8Hi(b, j) ==
  IF j = 1 /\ b = 237 THEN 159 ELSE IF j = 1 /\ b = 244 THEN 143 ELSE 191

\* how many continuation bytes of the sequence starting at s[i] are present
\* and in range
RECURSIVE Utf8Matched(_, _, _)
Utf8Matched(s, i, j) ==
  IF j > Utf8Need(s[i]) \/ i + j > Len(s) THEN j - 1
  ELSE IF s[i + j] >= Utf8Lo(s[i], j) /\ s[i + j] <= Utf8Hi(s[i], j)
       THEN Utf8Matched(s, i, j + 1)
       ELSE j - 1

Utf8Scalar(s, i) ==
  LET n == Utf8Need(s[i]) IN
  IF n = 1 THEN (s[i] - 192) * 64 + (s[i + 1] - 128)
  ELSE IF n = 2 THEN (s[i] - 224) * 4096 + (s[i + 1] - 128) * 64 + (s[i + 2] - 128)
  ELSE (s[i] - 240) * 262144 + (s[i + 1] - 128) * 4096
       + (s[i + 2] - 128) * 64 + (s[i + 3] - 128)

\* UTF-8 decoder: an invalid byte in the initial state is one error; a sequence
\* cut short by a byte that cannot continue it (or by the end) is one error and
\* the offending byte is looked at again
RECURSIVE Utf8Decode(_, _, _)
Utf8Decode(s, i, trap) ==
  IF i > Len(s) THEN DecOk(<<>>)
  ELSE IF s[i] < 128 THEN Emit(s[i], Utf8Decode(s, i + 1, trap))
  ELSE IF Utf8Need(s[i]) = 0 THEN Trapped(trap, Utf8Decode(s, i + 1, trap))
  ELSE LET k == Utf8Matched(s, i, 1) IN
       IF k = Utf8Need(s[i])
       THEN Emit(Utf8Scalar(s, i), Utf8Decode(s, i + k + 1, trap))
       ELSE Trapped(trap, Utf8Decode(s, i + k + 1, trap))

\* windows-1252 decoder: every byte maps to a character
RECURSIVE W1252Decode(_, _)
W1252Decode(s, i) ==
  IF i > Len(s) THEN DecOk(<<>>)
  ELSE Emit(IF s[i] >= 128 /\ s[i] <= 159 THEN Index1252[s[i] - 127] ELSE s[i],
            W1252Decode(s, i + 1))

Unit16(s, i) == s[i] + 256 * s[i + 1]
IsLead16(u) == u >= 55296 /\ u <= 56319
IsTrail16(u) == u >= 56320 /\ u <= 57343

\* UTF-16LE decoder: two bytes a unit, surrogate pairs, an odd last byte or an
\* unpaired surrogate is one error
RECURSIVE Utf16Decode(_, _, _)
Utf16Decode(s, i, trap) ==
  IF i > Len(s) THEN DecOk(<<>>)
  ELSE IF i = Len(s) THEN Trapped(trap, DecOk(<<>>))
  ELSE LET u == Unit16(s, i) IN
       IF IsTrail16(u) THEN Trapped(trap, Utf16Decode(s, i + 2, trap))
       ELSE IF ~IsLead16(u) THEN Emit(u, Utf16Decode(s, i + 2, trap))
       ELSE IF i + 3 > Len(s) THEN Trapped(trap, DecOk(<<>>))
       ELSE LET v == Unit16(s, i + 2) IN
            IF IsTrail16(v)
            THEN Emit(65536 + (u - 55296) * 1024 + (v - 56320),
                      Utf16Decode(s, i + 4, trap))
            ELSE Trapped(trap, Utf16Decode(s, i + 2, trap))

\* the bytes with the two of every pair exchanged, an odd last byte staying
Swap16(s) ==
  [i \in 1..Len(s) |->
     IF i % 2 = 0 THEN s[i - 1] ELSE IF i < Len(s) THEN s[i + 1] ELSE s[i]]

\* UTF-16BE decoder: the UTF-16 decoder with the high byte of a unit first
Utf16BEDecode(s, i, trap) == Utf16Decode(Swap16(s), i, trap)

\* Encoding::decode(input, trap)
encoding_decode(enc, input, trap) ==
  IF enc = "utf-8" THEN Utf8Decode(input, 1, trap)
  ELSE IF enc = "windows-1252" THEN W1252Decode(input, 1)
  ELSE IF enc = "utf-16be" THEN Utf16BEDecode(input, 1, trap)
  ELSE Utf16Decode(input, 1, trap)

Utf8Bytes(c) ==
  IF c < 128 THEN <<c>>
  ELSE IF c < 2048 THEN <<192 + (c \div 64), 128 + (c % 64)>>
  ELSE IF c < 65536 THEN <<224 + (c \div 4096), 128 + ((c \div 64) % 64), 128 + (c % 64)>>
  ELSE <<240 + (c \div 262144), 128 + ((c \div 4096) % 64),
         128 + ((c \div 64) % 64), 128 + (c % 64)>>

Utf16Bytes(c) ==
  IF c < 65536 THEN <<c % 256, c \div 256>>
  ELSE LET hi == 55296 + ((c - 65536) \div 1024)
           lo == 56320 + ((c - 65536) % 1024)
       IN <<hi % 256, hi \div 256, lo % 256, lo \div 256>>

Utf16BEBytes(c) == Swap16(Utf16Bytes(c))

\* the byte of a character in windows-1252, <<>> when it has none
W1252Bytes(c) ==
  IF c < 128 \/ (c >= 160 /\ c <= 255) THEN <<c>>
  ELSE IF \E k \in 1..32 : Index1252[k] = c
       THEN <<127 + CHOOSE k \in 1..32 : Index1252[k] = c>>
       ELSE <<>>

\* whether the encoding has a byte sequence for the character
Encodable(enc, c) == enc # "windows-1252" \/ W1252Bytes(c) # <<>>

CharBytes(enc, c) ==
  IF enc = "utf-8" THEN Utf8Bytes(c)
  ELSE IF enc = "windows-1252" THEN W1252Bytes(c)
  ELSE IF enc = "utf-16be" THEN Utf16BEBytes(c)
  ELSE Utf16Bytes(c)

\* an encoder that fails on a character it cannot represent, whatever the trap
RECURSIVE encoding_encode_strict(_, _, _)
encoding_encode_strict(enc, input, trap) ==
  IF input = <<>> THEN DecOk(<<>>)
  ELSE LET rest == encoding_encode_strict(enc, Tail(input), trap) IN
       IF ~rest.ok THEN rest
       ELSE IF Encodable(enc, Head(input))
            THEN DecOk(CharBytes(enc, Head(input)) \o rest.data)
            ELSE DecErr(<<Head(input)>>)

\* Encoding::encode(input, trap): Replace writes "?" for a character the
\* encoding cannot represent, Strict fails
RECURSIVE encoding_encode(_, _, _)
encoding_encode(enc, input, trap) ==
  IF input = <<>> THEN DecOk(<<>>)
  ELSE LET rest == encoding_encode(enc, Tail(input), trap) IN
       IF ~rest.ok THEN rest
       ELSE IF Encodable(enc, Head(input))
            THEN DecOk(CharBytes(enc, Head(input)) \o rest.data)
            ELSE IF trap = "Replace"
                 THEN DecOk(CharBytes(enc, 63) \o rest.data)
                 ELSE DecErr(<<Head(input)>>)

----------------------------------------------------------------------------
(* proto/line.rs *)

None == [tag |-> "None", data |-> <<>>]
Some(t) == [tag |-> "Some", data |-> t]
Err(t) == [tag |-> "Err", data |-> t]
Unit == [tag |-> "Unit", data |-> <<>>]

\* a scan that finds the last terminator instead of the first
position_of_last(b) ==
  IF \E i \in 1..Len(b) : b[i] = LF
  THEN (CHOOSE i \in 1..Len(b) : b[i] = LF /\ \A j \in (i + 1)..Len(b) : b[j] # LF) - 1
  ELSE -1

\* a scan that takes a carriage return for a terminator as well
position_cr_or_lf(b) ==
  IF \E i \in 1..Len(b) : b[i] \in {LF, 13}
  THEN (CHOOSE i \in 1..Len(b) :
          b[i] \in {LF, 13} /\ \A j \in 1..(i - 1) : b[j] \notin {LF, 13}) - 1
  ELSE -1

\* buf.as_ref().iter().position(|b| *b == b'\n'): 0-based, -1 for None
position(b) ==
  IF \E i \in 1..Len(b) : b[i] = LF
  THEN (CHOOSE i \in 1..Len(b) : b[i] = LF /\ \A j \in 1..(i - 1) : b[j] # LF) - 1
  ELSE -1

\* EasyBuf::drain_to(at): splits the buffer, the first at bytes are returned
drain_to(b, at) ==
  [taken |-> SubSeq(b, 1, at), rest |-> SubSeq(b, at + 1, Len(b))]

\* a decoding that gives up on the first invalid sequence
decode_line_strict(enc, line) == encoding_decode(enc, line, "Strict")

\* the decoding of a line with the trap decode passes
decode_line(enc, line) == encoding_decode(enc, line, "Replace")

\* a decode that has lost the bytes of an unfinished frame
decode_dropping_partial(enc, b) ==
  LET n == position(b) IN
  IF n # -1
  THEN LET line == drain_to(b, n)
           nl == drain_to(line.rest, 1)
           d == decode_line(enc, line.taken)
       IN [res |-> IF d.ok THEN Some(d.data) ELSE Err(d.data), buf |-> nl.rest]
  ELSE [res |-> None, buf |-> <<>>]

\* a decode that leaves the terminator in the buffer
decode_keeping_newline(enc, b) ==
  LET n == position(b) IN
  IF n # -1
  THEN LET line == drain_to(b, n)
           d == decode_line(enc, line.taken)
       IN [res |-> IF d.ok THEN Some(d.data) ELSE Err(d.data), buf |-> line.rest]
  ELSE [res |-> None, buf |-> b]

\* a decode that hands out an unfinished frame as soon as it sees one
decode_eager_partial(enc, b) ==
  LET n == position(b) IN
  IF n # -1
  THEN LET line == drain_to(b, n)
           nl == drain_to(line.rest, 1)
           d == decode_line(enc, line.taken)
       IN [res |-> IF d.ok THEN Some(d.data) ELSE Err(d.data), buf |-> nl.rest]
  ELSE IF b = <<>> THEN [res |-> None, buf |-> b]
  ELSE [res |-> Some(decode_line(enc, b).data), buf |-> <<>>]

\* LineCodec::decode: the result and the buffer it leaves
decode(enc, b) ==
  LET n == position(b) IN
  IF n # -1
  THEN LET line == drain_to(b, n)
           nl == drain_to(line.rest, 1)
           d == decode_line(enc, line.taken)
       IN [res |-> IF d.ok THEN Some(d.data) ELSE Err(d.data), buf |-> nl.rest]
  ELSE [res |-> None, buf |-> b]

\* an encode that ends what it writes with a terminator of its own
encode_appending_newline(enc, msg, o) ==
  LET data == encoding_encode(enc, msg, "Replace") IN
  IF data.ok THEN [res |-> Unit, out |-> o \o data.data \o <<LF>>]
  ELSE [res |-> Err(data.data), out |-> o]

\* an encode that writes over what the output buffer held
encode_overwriting(enc, msg, o) ==
  LET data == encoding_encode(enc, msg, "Replace") IN
  IF data.ok THEN [res |-> Unit, out |-> data.data]
  ELSE [res |-> Err(data.data), out |-> o]

\* LineCodec::encode: the result and the output buffer it leaves
encode(enc, msg, o) ==
  LET data == encoding_encode(enc, msg, "Replace") IN
  IF data.ok THEN [res |-> Unit, out |-> o \o data.data]
  ELSE [res |-> Err(data.data), out |-> o]

----------------------------------------------------------------------------
(* The codec driven by its caller *)

RECURSIVE TotalLen(_)
TotalLen(ss) == IF ss = <<>> THEN 0 ELSE Len(Head(ss)) + TotalLen(Tail(ss))

Call(op, before, arg, res) == [op |-> op, before |-> before, arg |-> arg, res |-> res]

\* no buffer holds anything and nothing was called
CodecFresh ==
  /\ buf = <<>>
  /\ out = <<>>
  /\ last = Call("new", <<>>, <<>>, Unit)
  /\ snapshot = <<>>
  /\ results = <<>>
  /\ fed = <<>>
  /\ frames = <<>>
  /\ sent = <<>>

NoError == [kind |-> "none", detail |-> ""]
NoFuture == [variant |-> "none", domain |-> ""]
NoBuilder == [root |-> FALSE, identity |-> FALSE, accept_invalid_certs |-> FALSE]

\* a configuration that asks for nothing
NoConfig ==
  [use_mock_connection |-> FALSE, use_ssl |-> FALSE, encoding |-> "",
   server |-> "none", cert_path |-> "none", client_cert_path |-> "none",
   insecure |-> FALSE, mock_initial_value |-> <<>>]

\* no establishment was asked for
ConnIdle ==
  /\ pc = "start"
  /\ future = NoFuture
  /\ tcp = "idle"
  /\ tls = "idle"
  /\ builder = NoBuilder
  /\ conn = "none"
  /\ error = NoError
  /\ trace = <<>>
  /\ polls = <<>>
  /\ stream = <<>>
  /\ received = <<>>
  /\ wire = <<>>
  /\ log = <<>>
  /\ sink = [op |-> "none", res |-> Unit]

InitCodec ==
  /\ encoding \in Encodings
  /\ config = NoConfig
  /\ ConnIdle
  /\ buf = <<>>
  /\ out = <<>>
  /\ last = Call("new", <<>>, <<>>, Unit)
  /\ snapshot = <<>>
  /\ results = <<>>
  /\ fed = <<>>
  /\ frames = <<>>
  /\ sent = <<>>

\* bytes arrive and are appended to the decode buffer
Arrive(chunk) ==
  /\ buf' = buf \o chunk
  /\ fed' = fed \o chunk
  /\ snapshot' = buf \o chunk
  /\ results' = <<>>
  /\ last' = Call("feed", buf, chunk, Unit)
  /\ UNCHANGED <<encoding, frames, sent>>

\* the peer sends one more byte
Feed ==
  /\ Len(fed) < MaxStream
  /\ \E b \in FeedBytes : Arrive(<<b>>)
  /\ UNCHANGED out
  /\ UNCHANGED connVars

\* the peer opens with the line b"NICK foo\r\n"
FeedNick ==
  /\ fed = <<>>
  /\ Arrive(NickLine)
  /\ UNCHANGED out
  /\ UNCHANGED connVars

\* the caller calls decode on the buffer
Decode ==
  /\ Len(results) < MaxCalls
  /\ LET r == decode(encoding, buf) IN
     /\ buf' = r.buf
     /\ last' = Call("decode", buf, <<>>, r.res)
     /\ results' = Append(results, r.res)
     /\ frames' = IF r.res.tag = "Some" THEN Append(frames, r.res.data) ELSE frames
  /\ UNCHANGED <<encoding, out, snapshot, fed, sent>>
  /\ UNCHANGED connVars

NextDecode == Feed \/ FeedNick \/ Decode

SpecDecode == InitCodec /\ [][NextDecode]_vars

\* the caller calls encode with a text and the output buffer
Encode ==
  /\ fed = <<>>
  /\ \E msg \in Texts :
       LET r == encode(encoding, msg, out) IN
       /\ Len(sent) + TotalLen(sent) + 1 + Len(msg) <= MaxEncodeWork
       /\ out' = r.out
       /\ last' = Call("encode", out, msg, r.res)
       /\ sent' = Append(sent, msg)
  /\ UNCHANGED <<encoding, buf, snapshot, results, fed, frames>>
  /\ UNCHANGED connVars

\* the bytes written are read back: the output buffer becomes decode's input
Handover ==
  /\ fed = <<>>
  /\ out # <<>>
  /\ Arrive(out)
  /\ out' = <<>>
  /\ UNCHANGED connVars

NextRound == Encode \/ Handover \/ Decode

SpecRound == InitCodec /\ [][NextRound]_vars

----------------------------------------------------------------------------
(* client/conn.rs *)

\* encoding labels a Config may carry
Labels == {"utf8", "latin1", "utf-16le", "utf-16be", "no-such-encoding"}

\* characters of an initial payload: LF, 'A', U+010A
PayloadChars == {10, 65, 266}

\* "hello\n"
HelloLine == <<104, 101, 108, 108, 111, 10>>

Payloads == SeqsUpTo(PayloadChars, MaxPayload) \cup {HelloLine}

\* configurations that ask for a simulated connection
MockConfigs ==
  [use_mock_connection : {TRUE}, use_ssl : BOOLEAN, encoding : Labels,
   server : {"irc.example"}, cert_path : {"none", "missing"},
   client_cert_path : {"none"}, insecure : {FALSE},
   mock_initial_value : Payloads]

\* configurations that ask for a network connection.  server: a name that
\* resolves, none at all, or one that does not resolve.  cert_path: no path,
\* a DER certificate, a path to no file, a file that cannot be read, a file
\* that is no certificate.  client_cert_path: likewise, "bad" being an archive
\* that is read but does not parse or open with the passphrase.
NetConfigs ==
  [use_mock_connection : {FALSE}, use_ssl : BOOLEAN, encoding : Labels,
   server : {"irc.example", "none", "unresolvable.example"},
   cert_path : {"none", "ok", "missing", "unreadable", "garbage"},
   client_cert_path : {"none", "ok", "missing", "unreadable", "bad"}, insecure : BOOLEAN,
   mock_initial_value : {<<>>}]

Configs == MockConfigs \cup NetConfigs

\* encoding_from_whatwg_label: the encoding's name, "none" for None
encoding_from_whatwg_label(label) ==
  IF label = "utf8" THEN "utf-8"
  ELSE IF label = "latin1" THEN "windows-1252"
  ELSE IF label = "utf-16le" THEN "utf-16le"
  ELSE IF label = "utf-16be" THEN "utf-16be"
  ELSE "none"

UnknownCodec(label) == [kind |-> "UnknownCodec", detail |-> label]
CodecFailed(name) == [kind |-> "CodecFailed", detail |-> name]
IoError(what) == [kind |-> "Io", detail |-> what]
TlsError(what) == [kind |-> "Tls", detail |-> what]
ConfigError(what) == [kind |-> "InvalidConfig", detail |-> what]

Event(ev, arg) == [ev |-> ev, arg |-> arg]

\* IrcCodec::new(label): the encoding of the codec, or the unknown-codec error
IrcCodec_new(label) ==
  LET e == encoding_from_whatwg_label(label) IN
  [error |-> IF e = "none" THEN UnknownCodec(label) ELSE NoError, encoding |-> e]

\* the state Connection::new threads through its statements; a statement
\* after a failed one (a `?` that returned) does nothing
Setup(err, tr, b, f) == [error |-> err, trace |-> tr, builder |-> b, future |-> f]
Failed(st, err, evs) == Setup(err, st.trace \o evs, st.builder, NoFuture)
Did(st, evs) == Setup(st.error, st.trace \o evs, st.builder, st.future)

\* let domain = format!("{}", config.server()?); info!(...)
new_domain(cfg, st) ==
  IF cfg.server = "none" THEN Failed(st, ConfigError("server"), <<>>)
  ELSE Did(Setup(NoError, st.trace, st.builder, [variant |-> "none", domain |-> cfg.server]),
           <<Event("info", "Connecting via SSL")>>)

\* if let Some(cert_path) = config.cert_path() { ... }
new_root_certificate(cfg, st) ==
  IF st.error # NoError \/ cfg.cert_path = "none" THEN st
  ELSE IF cfg.cert_path = "missing"
       THEN Failed(st, IoError("open"), <<Event("open", "cert_path")>>)
  ELSE IF cfg.cert_path = "unreadable"
       THEN Failed(st, IoError("read"),
                   <<Event("open", "cert_path"), Event("read", "cert_path")>>)
  ELSE IF cfg.cert_path = "garbage"
       THEN Failed(st, TlsError("from_der"),
                   <<Event("open", "cert_path"), Event("read", "cert_path")>>)
  ELSE Did(Setup(NoError, st.trace, [st.builder EXCEPT !.root = TRUE], st.future),
           <<Event("open", "cert_path"), Event("read", "cert_path"),
             Event("info", "Added to trusted certificates")>>)

\* if let Some(client_cert_path) = config.client_cert_path() { ... }
new_identity(cfg, st) ==
  IF st.error # NoError \/ cfg.client_cert_path = "none" THEN st
  ELSE IF cfg.client_cert_path = "missing"
       THEN Failed(st, IoError("open"), <<Event("open", "client_cert_path")>>)
  ELSE IF cfg.client_cert_path = "unreadable"
       THEN Failed(st, IoError("read"),
                   <<Event("open", "client_cert_path"), Event("read", "client_cert_path")>>)
  ELSE IF cfg.client_cert_path = "bad"
       THEN Failed(st, TlsError("from_pkcs12"),
                   <<Event("open", "client_cert_path"), Event("read", "client_cert_path")>>)
  ELSE Did(Setup(NoError, st.trace, [st.builder EXCEPT !.identity = TRUE], st.future),
           <<Event("open", "client_cert_path"), Event("read", "client_cert_path"),
             Event("info", "Using client certificate")>>)

\* if config.insecure() { builder.danger_accept_invalid_certs(true); }
new_insecure(cfg, st) ==
  IF st.error # NoError \/ ~cfg.insecure THEN st
  ELSE Setup(NoError, st.trace, [st.builder EXCEPT !.accept_invalid_certs = TRUE], st.future)

\* let connector = builder.build()?.into();
new_build(build_ok, st) ==
  IF st.error # NoError THEN st
  ELSE IF ~build_ok THEN Failed(st, TlsError("build"), <<>>)
  ELSE st

\* TcpStream::connect(&config.socket_addr()?, handle)
new_connect(cfg, st) ==
  IF st.error # NoError THEN st
  ELSE IF cfg.server = "none" THEN Failed(st, ConfigError("server"), <<>>)
  ELSE IF cfg.server = "unresolvable.example"
       THEN Failed(st, IoError("socket_addr"), <<Event("resolve", cfg.server)>>)
  ELSE Did(st, <<Event("resolve", cfg.server), Event("tcp_connect", cfg.server)>>)

\* info!("Connecting to {}.", config.server()?);
new_plain_log(cfg, st) ==
  IF cfg.server = "none" THEN Failed(st, ConfigError("server"), <<>>)
  ELSE Did(st, <<Event("info", "Connecting")>>)

Variant(st, v) ==
  IF st.error # NoError THEN st
  ELSE Setup(NoError, st.trace, st.builder, [variant |-> v, domain |-> st.future.domain])

Fresh == Setup(NoError, <<>>, NoBuilder, NoFuture)

\* an encrypted branch that opens the socket before it reads the files
new_secured_connect_first(cfg, build_ok) ==
  Variant(
    new_build(build_ok,
      new_insecure(cfg,
        new_identity(cfg,
          new_root_certificate(cfg,
            new_connect(cfg,
              new_domain(cfg, Fresh)))))),
    "Secured")

\* the encrypted branch of Connection::new
new_secured(cfg, build_ok) ==
  Variant(
    new_connect(cfg,
      new_build(build_ok,
        new_insecure(cfg,
          new_identity(cfg,
            new_root_certificate(cfg,
              new_domain(cfg, Fresh)))))),
    "Secured")

\* the plain branch of Connection::new
new_unsecured(cfg) == Variant(new_connect(cfg, new_plain_log(cfg, Fresh)), "Unsecured")

\* a Connection::new that looks at use_ssl before use_mock_connection
new_ssl_first(cfg, build_ok) ==
  IF cfg.use_ssl THEN new_secured(cfg, build_ok)
  ELSE IF cfg.use_mock_connection THEN Variant(Fresh, "Mock")
  ELSE new_unsecured(cfg)

\* a Connection::new that opens a socket for the simulated path too
new_mock_connecting(cfg, build_ok) ==
  IF cfg.use_mock_connection THEN Variant(new_connect(cfg, Fresh), "Mock")
  ELSE IF cfg.use_ssl THEN new_secured(cfg, build_ok)
  ELSE new_unsecured(cfg)

\* a Connection::new that goes on in the clear when the encrypted branch failed
new_falling_back(cfg, build_ok) ==
  IF cfg.use_mock_connection THEN Variant(Fresh, "Mock")
  ELSE IF cfg.use_ssl
       THEN IF new_secured(cfg, build_ok).error = NoError
            THEN new_secured(cfg, build_ok)
            ELSE new_unsecured(cfg)
  ELSE new_unsecured(cfg)

\* Connection::new: the ConnectionFuture or the error, and what was done
new(cfg, build_ok) ==
  IF cfg.use_mock_connection THEN Variant(Fresh, "Mock")
  ELSE IF cfg.use_ssl THEN new_secured(cfg, build_ok)
  ELSE new_unsecured(cfg)

InitConn ==
  /\ config \in Configs
  /\ ConnIdle
  /\ encoding = "none"
  /\ CodecFresh

\* the caller asks for a connection: Connection::new(config, handle)
New ==
  /\ pc = "start"
  /\ \E build_ok \in BOOLEAN :
       LET r == new(config, build_ok) IN
       /\ error' = r.error
       /\ trace' = r.trace
       /\ builder' = r.builder
       /\ future' = r.future
       /\ tcp' = IF \E i \in 1..Len(r.trace) : r.trace[i].ev = "tcp_connect"
                 THEN "pending" ELSE "idle"
       /\ pc' = IF r.error = NoError THEN "polling" ELSE "failed"
  /\ UNCHANGED <<config, tls, conn, polls, stream, received>>
  /\ UNCHANGED codecVars
  /\ UNCHANGED sinkVars

\* the network answers the TCP connect
TcpComplete ==
  /\ pc = "polling"
  /\ tcp = "pending"
  /\ tcp' \in {"connected", "failed"}
  /\ UNCHANGED <<config, pc, future, tls, builder, conn, error, trace, polls, stream, received>>
  /\ UNCHANGED codecVars
  /\ UNCHANGED sinkVars

\* the server answers the TLS handshake
TlsComplete ==
  /\ pc = "polling"
  /\ tls = "pending"
  /\ tls' \in {"done", "failed"}
  /\ UNCHANGED <<config, pc, future, tcp, builder, conn, error, trace, polls, stream, received>>
  /\ UNCHANGED codecVars
  /\ UNCHANGED sinkVars

\* poll returned Async::NotReady
NotReady ==
  /\ polls' = Append(polls, "NotReady")
  /\ UNCHANGED <<pc, conn, error, encoding>>

\* poll returned Err(e)
PollErr(e) ==
  /\ polls' = Append(polls, "Err")
  /\ error' = e
  /\ pc' = "failed"
  /\ UNCHANGED <<conn, encoding>>

\* a poll that drops the `?` after IrcCodec::new
Framed_unchecked(variant) ==
  /\ polls' = Append(polls, "Ready")
  /\ encoding' = IrcCodec_new(config.encoding).encoding
  /\ conn' = variant
  /\ pc' = "ready"
  /\ UNCHANGED error

\* the stream is there: IrcCodec::new(config.encoding())?.framed(stream),
\* IrcTransport::new, Ok(Async::Ready(Connection::variant(transport)))
Framed(variant) ==
  LET codec == IrcCodec_new(config.encoding) IN
  IF codec.error # NoError THEN PollErr(codec.error)
  ELSE /\ polls' = Append(polls, "Ready")
       /\ encoding' = codec.encoding
       /\ conn' = variant
       /\ pc' = "ready"
       /\ UNCHANGED error

\* ConnectionFuture::poll, Unsecured
PollUnsecured ==
  /\ pc = "polling"
  /\ future.variant = "Unsecured"
  /\ Len(polls) < MaxPolls
  /\ IF tcp = "pending" THEN NotReady
     ELSE IF tcp = "failed" THEN PollErr(IoError("connect"))
     ELSE Framed("Unsecured")
  /\ UNCHANGED <<config, future, tcp, tls, builder, trace, stream, received>>
  /\ UNCHANGED <<buf, out, last, snapshot, results, fed, frames, sent>>
  /\ UNCHANGED sinkVars

\* a poll that starts the handshake without waiting for the connect
PollSecured_handshake_first ==
  /\ pc = "polling"
  /\ future.variant = "Secured"
  /\ Len(polls) < MaxPolls
  /\ IF tls = "idle"
     THEN /\ trace' = Append(trace, Event("tls_handshake", future.domain))
          /\ \E step \in {"pending", "done", "failed"} :
               /\ tls' = step
               /\ IF step = "pending" THEN NotReady
                  ELSE IF step = "failed" THEN PollErr(TlsError("handshake"))
                  ELSE Framed("Secured")
     ELSE IF tcp = "pending" THEN NotReady /\ UNCHANGED <<tls, trace>>
     ELSE IF tcp = "failed" THEN PollErr(IoError("connect")) /\ UNCHANGED <<tls, trace>>
     ELSE IF tls = "pending" THEN NotReady /\ UNCHANGED <<tls, trace>>
     ELSE IF tls = "failed" THEN PollErr(TlsError("handshake")) /\ UNCHANGED <<tls, trace>>
     ELSE Framed("Secured") /\ UNCHANGED <<tls, trace>>
  /\ UNCHANGED <<config, future, tcp, builder, stream, received>>
  /\ UNCHANGED <<buf, out, last, snapshot, results, fed, frames, sent>>
  /\ UNCHANGED sinkVars

\* ConnectionFuture::poll, Secured: the inner future is the connect and then
\* the handshake against the domain Connection::new computed.  The poll that
\* finds the connect done starts the handshake and polls it in the same call:
\* it returns what the handshake's first step gives (not ready, done, failed)
PollSecured ==
  /\ pc = "polling"
  /\ future.variant = "Secured"
  /\ Len(polls) < MaxPolls
  /\ IF tcp = "pending" THEN NotReady /\ UNCHANGED <<tls, trace>>
     ELSE IF tcp = "failed" THEN PollErr(IoError("connect")) /\ UNCHANGED <<tls, trace>>
     ELSE IF tls = "idle"
          THEN /\ trace' = Append(trace, Event("tls_handshake", future.domain))
               /\ \E step \in {"pending", "done", "failed"} :
                    /\ tls' = step
                    /\ IF step = "pending" THEN NotReady
                       ELSE IF step = "failed" THEN PollErr(TlsError("handshake"))
                       ELSE Framed("Secured")
     ELSE IF tls = "pending" THEN NotReady /\ UNCHANGED <<tls, trace>>
     ELSE IF tls = "failed" THEN PollErr(TlsError("handshake")) /\ UNCHANGED <<tls, trace>>
     ELSE Framed("Secured") /\ UNCHANGED <<tls, trace>>
  /\ UNCHANGED <<config, future, tcp, builder, stream, received>>
  /\ UNCHANGED <<buf, out, last, snapshot, results, fed, frames, sent>>
  /\ UNCHANGED sinkVars

\* a poll that writes the initial payload as UTF-8 whatever the label says
PollMock_utf8_payload ==
  /\ pc = "polling"
  /\ future.variant = "Mock"
  /\ Len(polls) < MaxPolls
  /\ LET enc == encoding_from_whatwg_label(config.encoding)
         initial == encoding_encode("utf-8", config.mock_initial_value, "Replace")
     IN IF enc = "none" THEN PollErr(UnknownCodec(config.encoding)) /\ UNCHANGED stream
        ELSE IF ~initial.ok THEN PollErr(CodecFailed(enc)) /\ UNCHANGED stream
        ELSE Framed("Mock") /\ stream' = initial.data
  /\ UNCHANGED <<config, future, tcp, tls, builder, trace, received>>
  /\ UNCHANGED <<buf, out, last, snapshot, results, fed, frames, sent>>
  /\ UNCHANGED sinkVars

\* ConnectionFuture::poll, Mock
PollMock ==
  /\ pc = "polling"
  /\ future.variant = "Mock"
  /\ Len(polls) < MaxPolls
  /\ LET enc == encoding_from_whatwg_label(config.encoding)
         initial == encoding_encode(enc, config.mock_initial_value, "Replace")
     IN IF enc = "none" THEN PollErr(UnknownCodec(config.encoding)) /\ UNCHANGED stream
        ELSE IF ~initial.ok THEN PollErr(CodecFailed(enc)) /\ UNCHANGED stream
        ELSE Framed("Mock") /\ stream' = initial.data
  /\ UNCHANGED <<config, future, tcp, tls, builder, trace, received>>
  /\ UNCHANGED <<buf, out, last, snapshot, results, fed, frames, sent>>
  /\ UNCHANGED sinkVars

\* the transport under a Connection, polled for its next message: what is
\* buffered is decoded; when that gives no frame the stream is read and the
\* buffer decoded again; an in-memory stream that is read out has ended
transport_poll(variant, enc, b, st) ==
  LET d == decode(enc, b \o st) IN
  IF d.res.tag # "None" THEN [res |-> d.res, buf |-> d.buf]
  ELSE IF variant # "Mock" THEN [res |-> [tag |-> "NotReady", data |-> <<>>], buf |-> d.buf]
  ELSE IF d.buf = <<>> THEN [res |-> [tag |-> "End", data |-> <<>>], buf |-> d.buf]
  ELSE [res |-> Err(d.buf), buf |-> d.buf]

\* Stream::poll of Connection: forwarded to the transport of its variant
ReceiveNext ==
  /\ pc = "ready"
  /\ conn # "none"
  /\ Len(received) < MaxReceives
  /\ LET r == transport_poll(conn, encoding, buf, stream) IN
     /\ received' = Append(received, r.res)
     /\ buf' = r.buf
     /\ fed' = fed \o stream
     /\ stream' = <<>>
     /\ frames' = IF r.res.tag = "Some" THEN Append(frames, r.res.data) ELSE frames
  /\ UNCHANGED <<config, pc, future, tcp, tls, builder, conn, error, trace, polls>>
  /\ UNCHANGED <<encoding, out, last, snapshot, results, sent>>
  /\ UNCHANGED sinkVars

Next == New \/ TcpComplete \/ TlsComplete \/ PollUnsecured \/ PollSecured \/ PollMock \/ ReceiveNext

Spec == InitConn /\ [][Next]_vars

----------------------------------------------------------------------------
(* The Connection written to *)

\* send calls on one Connection
MaxSends == 2

\* messages handed to send: "A\n", U+010A and "\n", U+00E9 with no terminator
SendTexts == {<<65, 10>>, <<266, 10>>, <<233>>}

\* initial payloads of the simulated connections that are written to
SinkPayloads == {<<>>, <<266, 10, 65>>}

\* the configurations of the connections that are written to
SinkConfigs ==
  {c \in Configs :
     /\ c.server = "irc.example"
     /\ c.cert_path = "none"
     /\ c.client_cert_path = "none"
     /\ c.mock_initial_value \in SinkPayloads
     /\ c.use_mock_connection => ~c.use_ssl}

Ready == [tag |-> "Ready", data |-> <<>>]

\* the transport under a Connection handed a message: the codec encodes it
\* onto the end of the write buffer; the buffer of the framing layer is far
\* from full with MaxSends messages, so the message is always taken
transport_start_send(enc, msg, o) ==
  LET r == encode(enc, msg, o) IN
  [res |-> IF r.res = Unit THEN Ready ELSE r.res, out |-> r.out]

\* the transport driven to completion: the first n bytes of the write buffer
\* go to the stream; an in-memory stream takes all of them, a socket may take
\* fewer (not ready) or fail
transport_poll_complete(variant, o, w, n, ok) ==
  LET k == IF variant = "Mock" THEN Len(o) ELSE n IN
  [wire |-> w \o SubSeq(o, 1, k),
   out |-> SubSeq(o, k + 1, Len(o)),
   res |-> IF variant # "Mock" /\ ~ok THEN Err(<<>>)
           ELSE IF k = Len(o) THEN Ready
           ELSE [tag |-> "NotReady", data |-> <<>>]]

\* the write capture around the simulated transport: a message the transport
\* took is recorded
Logged_start_send(variant, lg, msg, res) ==
  IF variant = "Mock" /\ res = Ready THEN Append(lg, msg) ELSE lg

\* a send that puts the message in front of what is queued
StartSend_out_of_order ==
  /\ pc = "ready"
  /\ conn # "none"
  /\ Len(sent) < MaxSends
  /\ \E msg \in SendTexts :
       LET r == transport_start_send(encoding, msg, <<>>) IN
       /\ out' = r.out \o out
       /\ sent' = Append(sent, msg)
       /\ log' = Logged_start_send(conn, log, msg, r.res)
       /\ sink' = [op |-> "send", res |-> r.res]
  /\ UNCHANGED <<config, pc, future, tcp, tls, builder, conn, error, trace, polls>>
  /\ UNCHANGED <<stream, received, wire>>
  /\ UNCHANGED <<encoding, buf, last, snapshot, results, fed, frames>>

\* Sink::start_send of Connection: forwarded to the transport of its variant
StartSend ==
  /\ pc = "ready"
  /\ conn # "none"
  /\ Len(sent) < MaxSends
  /\ \E msg \in SendTexts :
       LET r == transport_start_send(encoding, msg, out) IN
       /\ out' = r.out
       /\ sent' = Append(sent, msg)
       /\ log' = Logged_start_send(conn, log, msg, r.res)
       /\ sink' = [op |-> "send", res |-> r.res]
  /\ UNCHANGED <<config, pc, future, tcp, tls, builder, conn, error, trace, polls>>
  /\ UNCHANGED <<stream, received, wire>>
  /\ UNCHANGED <<encoding, buf, last, snapshot, results, fed, frames>>

\* Sink::poll_complete of Connection: forwarded to the transport of its variant
PollComplete ==
  /\ pc = "ready"
  /\ conn # "none"
  /\ \E n \in 0..Len(out), ok \in BOOLEAN :
       LET r == transport_poll_complete(conn, out, wire, n, ok) IN
       /\ out' = r.out
       /\ wire' = r.wire
       /\ sink' = [op |-> "flush", res |-> r.res]
  /\ UNCHANGED <<config, pc, future, tcp, tls, builder, conn, error, trace, polls>>
  /\ UNCHANGED <<stream, received, log>>
  /\ UNCHANGED <<encoding, buf, last, snapshot, results, fed, frames, sent>>

\* a capture view that every variant hands out
log_view_always(variant, lg) == Some(lg)

\* Connection::log_view: a view of the capture for Mock, None otherwise
log_view(variant, lg) == IF variant = "Mock" THEN Some(lg) ELSE None

\* the caller asks for the capture view
LogView ==
  /\ pc = "ready"
  /\ conn # "none"
  /\ sink' = [op |-> "log_view", res |-> log_view(conn, log)]
  /\ UNCHANGED <<config, pc, future, tcp, tls, builder, conn, error, trace, polls>>
  /\ UNCHANGED <<stream, received, wire, log>>
  /\ UNCHANGED codecVars

InitSink ==
  /\ config \in SinkConfigs
  /\ ConnIdle
  /\ encoding = "none"
  /\ CodecFresh

NextSink ==
  \/ New \/ TcpComplete \/ TlsComplete \/ PollUnsecured \/ PollSecured \/ PollMock
  \/ ReceiveNext \/ StartSend \/ PollComplete \/ LogView

SpecSink == InitSink /\ [][NextSink]_vars

----------------------------------------------------------------------------
(* What the claims speak of *)

Range(s) == {s[i] : i \in 1..Len(s)}

NoTerminator(b) == \A i \in 1..Len(b) : b[i] # LF

\* positions (1-based) of the terminator bytes of b
Terminators(b) == {i \in 1..Len(b) : b[i] = LF}

\* position of the k-th terminator of b, 0 for k = 0
Terminator(b, k) ==
  IF k = 0 THEN 0
  ELSE CHOOSE i \in Terminators(b) : Cardinality({j \in Terminators(b) : j < i}) = k - 1

\* the bytes of b split at its terminators up front: the k-th line
Line(b, k) == SubSeq(b, Terminator(b, k - 1) + 1, Terminator(b, k) - 1)

\* the bytes of b after its k-th terminator
After(b, k) == SubSeq(b, Terminator(b, k) + 1, Len(b))

\* the text a line of bytes stands for, invalid sequences replaced
TextOf(line) == encoding_decode(encoding, line, "Replace").data

\* the line is not valid under the codec's encoding
Invalid(line) == ~encoding_decode(encoding, line, "Strict").ok

DecodedHere == last.op = "decode"

\* C1: a decode of a buffer with no terminator byte returns "no frame yet" and
\* leaves the buffer as it was, so that the frame completes once its
\* terminator has arrived
C1_NoTerminatorNoEffect ==
  (DecodedHere /\ NoTerminator(last.before)) =>
    /\ last.res = None
    /\ buf = last.before
    /\ decode(encoding, buf \o <<LF>>) = [res |-> Some(TextOf(last.before)), buf |-> <<>>]

C1_Witness ==
  /\ DecodedHere
  /\ Len(last.before) >= 2
  /\ NoTerminator(last.before)
  /\ last.res = None

\* C2: a decode of a buffer whose first terminator is at position n consumes
\* n+1 bytes, returns the decoding of the first n bytes and leaves the bytes
\* after the terminator as they were
C2_ConsumesThroughTerminator ==
  \A n \in 0..(Len(last.before) - 1) :
    (DecodedHere /\ last.before[n + 1] = LF /\ NoTerminator(SubSeq(last.before, 1, n))) =>
      /\ Len(buf) = Len(last.before) - (n + 1)
      /\ buf = SubSeq(last.before, n + 2, Len(last.before))
      /\ last.res = Some(TextOf(SubSeq(last.before, 1, n)))

C2_Witness ==
  /\ DecodedHere
  /\ Len(last.before) = 4
  /\ last.before[2] = LF
  /\ last.before[1] # LF
  /\ last.before[4] = LF
  /\ Len(buf) = 2

C2_WitnessEmptyLine ==
  /\ DecodedHere
  /\ Len(last.before) >= 2
  /\ last.before[1] = LF
  /\ last.res = Some(<<>>)

\* C3: the decode calls made on a buffer with k terminators return, in order,
\* the k lines the buffer splits into at its terminators; every later call
\* returns "no frame yet" and the bytes after the last terminator stay
C3_SequentialEqualsSplit ==
  LET k == Cardinality(Terminators(snapshot)) IN
  /\ \A i \in 1..Len(results) :
       results[i] = IF i <= k THEN Some(TextOf(Line(snapshot, i))) ELSE None
  /\ Len(results) >= k => buf = After(snapshot, k)
  /\ Len(results) < k => buf = After(snapshot, Len(results))

C3_Witness ==
  /\ Cardinality(Terminators(snapshot)) = 2
  /\ Len(results) = 3
  /\ results[1].data # results[2].data
  /\ results[3] = None
  /\ buf # <<>>

\* C5: decode never fails on the content of the bytes: a line that is not
\* valid under the encoding comes back as text with U+FFFD in it
C5_DecodeNeverFails ==
  DecodedHere =>
    /\ last.res.tag # "Err"
    /\ \A i \in 1..Len(results) : results[i].tag # "Err"
    /\ (~NoTerminator(last.before) /\ Invalid(Line(last.before, 1))) =>
         (last.res.tag = "Some" /\ 65533 \in Range(last.res.data))

C5_Witness ==
  /\ DecodedHere
  /\ ~NoTerminator(last.before)
  /\ Invalid(Line(last.before, 1))
  /\ Len(Line(last.before, 1)) >= 2
  /\ last.res.tag = "Some"

\* encodings in which a byte below 0x80 stands for the character of that number
AsciiCompatible == encoding \in {"utf-8", "windows-1252"}

\* C6: only 0x0A ends a frame: a carriage return is content, whether or not a
\* terminator follows it, nothing is trimmed, and b"NICK foo\r\n" decodes to
\* "NICK foo\r"
C6_OnlyNewlineTerminates ==
  DecodedHere =>
    /\ (NoTerminator(last.before) /\ 13 \in Range(last.before)) => last.res = None
    /\ ~NoTerminator(last.before) =>
         LET line == Line(last.before, 1) IN
         /\ last.res.tag = "Some"
         /\ (AsciiCompatible /\ line # <<>> /\ line[Len(line)] = 13) =>
              (last.res.data # <<>> /\ last.res.data[Len(last.res.data)] = 13)
         /\ encoding = "windows-1252" => Len(last.res.data) = Len(line)
         /\ Len(buf) + Len(line) + 1 = Len(last.before)
    /\ (last.before = NickLine /\ AsciiCompatible) => last.res = Some(NickText)

C6_Witness ==
  /\ DecodedHere
  /\ last.before = NickLine
  /\ encoding = "utf-8"
  /\ last.res = Some(NickText)
  /\ buf = <<>>

C6_WitnessBareCR ==
  /\ DecodedHere
  /\ last.before = <<65, 13, 10, 65>>
  /\ last.res = Some(<<65, 13>>)

\* every character of the text has a byte sequence in the codec's encoding
Lossless(t) == \A i \in 1..Len(t) : Encodable(encoding, t[i])

\* one text with its terminator was encoded into an empty buffer, and that
\* buffer has been decoded once
RoundTrip ==
  /\ DecodedHere
  /\ Len(sent) = 1
  /\ sent[1] # <<>>
  /\ sent[1][Len(sent[1])] = LF
  /\ Len(results) = 1
  /\ last.before = fed
  /\ fed # <<>>

\* the text of the round trip, without its terminator
RoundTripText == SubSeq(sent[1], 1, Len(sent[1]) - 1)

\* C4, as stated: for every encoding, the round trip of a text encodable
\* without loss gives the text back and leaves the buffer empty
C4_AsStated ==
  (RoundTrip /\ Lossless(RoundTripText)) =>
    (last.res = Some(RoundTripText) /\ buf = <<>>)

\* the same for the texts that have no terminator character in them: the
\* first terminator byte of the buffer should then be the one encode was
\* handed at the end of the text
C4_TerminatorFreeText ==
  (RoundTrip /\ Lossless(RoundTripText) /\ LF \notin Range(RoundTripText)) =>
    (last.res = Some(RoundTripText) /\ buf = <<>>)

\* what does hold: under the encodings in which the byte 0x0A is the
\* terminator character and nothing else, a text without a terminator in it
\* comes back and the buffer is left empty
C4_RoundTripAscii ==
  (RoundTrip /\ AsciiCompatible /\ Lossless(RoundTripText) /\ LF \notin Range(RoundTripText)) =>
    (last.res = Some(RoundTripText) /\ buf = <<>>)

C4_Witness ==
  /\ RoundTrip
  /\ RoundTripText = <<233, 65>>
  /\ encoding = "windows-1252"
  /\ last.res = Some(<<233, 65>>)
  /\ buf = <<>>

\* "A" and the terminator under UTF-16LE are 41 00 0A 00: the text comes
\* back and the 00 of the terminator stays in the buffer
C4_WitnessUtf16 ==
  /\ RoundTrip
  /\ RoundTripText = <<65>>
  /\ encoding = "utf-16le"
  /\ last.before = <<65, 0, 10, 0>>
  /\ last.res = Some(<<65>>)
  /\ buf = <<0>>

\* under UTF-16BE they are 00 41 00 0A: the 00 of the terminator is decoded
\* with the text, as U+FFFD
C4_WitnessUtf16BE ==
  /\ RoundTrip
  /\ RoundTripText = <<65>>
  /\ encoding = "utf-16be"
  /\ last.before = <<0, 65, 0, 10>>
  /\ last.res = Some(<<65, 65533>>)
  /\ buf = <<>>

----------------------------------------------------------------------------
(* Establishment *)

\* the path the configuration flags select
ChosenPath ==
  IF config.use_mock_connection THEN "Mock"
  ELSE IF config.use_ssl THEN "Secured"
  ELSE "Unsecured"

Happened(ev) == \E i \in 1..Len(trace) : trace[i].ev = ev

\* no TCP connect was started
NoConnect == tcp = "idle" /\ ~Happened("tcp_connect")

\* C7: establishment takes the simulated path whenever use_mock_connection is
\* set, else the encrypted path when use_ssl is set, else the plain path; the
\* future and the Connection have the variant of that path and no step of
\* another path is taken
C7_PathByPriority ==
  /\ future.variant \in {"none", ChosenPath}
  /\ conn \in {"none", ChosenPath}
  /\ pc = "polling" => future.variant = ChosenPath
  /\ pc = "ready" => conn = ChosenPath
  /\ ChosenPath = "Mock" => (trace = <<>> /\ tcp = "idle" /\ tls = "idle")
  /\ ChosenPath = "Unsecured" =>
       (tls = "idle" /\ builder = NoBuilder /\ ~Happened("open") /\ ~Happened("tls_handshake"))
  /\ ChosenPath # "Mock" => stream = <<>>

C7_Witness ==
  /\ config.use_mock_connection
  /\ config.use_ssl
  /\ config.cert_path = "missing"
  /\ conn = "Mock"
  /\ pc = "ready"

UnknownLabel == encoding_from_whatwg_label(config.encoding) = "none"

\* C8, as stated: on every path an attempt with an unknown encoding label
\* yields no Connection, its unknown-codec error names the label, and no TCP
\* connect is started in it
C8_AsStated ==
  (UnknownLabel /\ pc # "start") =>
    /\ NoConnect
    /\ pc # "ready"
    /\ error.kind = "UnknownCodec" => error.detail = config.encoding

\* what the code does with an unknown label: the attempt never yields a
\* Connection.  On the simulated path its first poll fails with the unknown-codec error
\* naming the label, nothing else having been done.  On the plain and the
\* encrypted path the label is looked at only once the stream is there: the
\* unknown-codec error comes after the TCP connect (and the TLS handshake)
\* succeeded, and it is what an attempt that got that far fails with.
C8_UnknownLabelFails ==
  UnknownLabel =>
    /\ conn = "none"
    /\ pc # "ready"
    /\ (config.use_mock_connection /\ pc \notin {"start", "polling"}) =>
         /\ error = UnknownCodec(config.encoding)
         /\ polls = <<"Err">>
         /\ trace = <<>>
         /\ NoConnect
    /\ (~config.use_mock_connection /\ error.kind = "UnknownCodec") =>
         /\ error = UnknownCodec(config.encoding)
         /\ Happened("tcp_connect")
         /\ tcp = "connected"
         /\ config.use_ssl => tls = "done"
    /\ (/\ ~config.use_mock_connection
        /\ pc = "failed"
        /\ tcp = "connected"
        /\ config.use_ssl => tls = "done") => error = UnknownCodec(config.encoding)

C8_Witness ==
  /\ UnknownLabel
  /\ ChosenPath = "Unsecured"
  /\ pc = "failed"
  /\ error = UnknownCodec("no-such-encoding")
  /\ tcp = "connected"
  /\ Happened("tcp_connect")

C8_WitnessMock ==
  /\ UnknownLabel
  /\ ChosenPath = "Mock"
  /\ pc = "failed"
  /\ error = UnknownCodec("no-such-encoding")

\* the files the encrypted path reads, as the configuration names them
RootCertFails == config.cert_path \in {"missing", "unreadable", "garbage"}
RootCertPasses == config.cert_path \in {"none", "ok"}
IdentityFails == config.client_cert_path \in {"missing", "unreadable", "bad"}

\* C9: on the encrypted path a failure while the TLS configuration is built
\* (root certificate or client identity not there, not readable, not parsed;
\* the connector not built) ends establishment with the error of that step,
\* and no address is resolved and no TCP connect started
C9_TlsSetupFailsBeforeConnect ==
  (ChosenPath = "Secured" /\ pc # "start" /\ config.server # "none") =>
    /\ config.cert_path \in {"missing", "unreadable"} =>
         (pc = "failed" /\ error.kind = "Io" /\ NoConnect /\ ~Happened("resolve"))
    /\ config.cert_path = "garbage" =>
         (pc = "failed" /\ error = TlsError("from_der") /\ NoConnect /\ ~Happened("resolve"))
    /\ (RootCertPasses /\ config.client_cert_path \in {"missing", "unreadable"}) =>
         (pc = "failed" /\ error.kind = "Io" /\ NoConnect /\ ~Happened("resolve"))
    /\ (RootCertPasses /\ config.client_cert_path = "bad") =>
         (pc = "failed" /\ error = TlsError("from_pkcs12") /\ NoConnect /\ ~Happened("resolve"))
    /\ error = TlsError("build") => (pc = "failed" /\ NoConnect /\ ~Happened("resolve"))
    /\ (RootCertFails \/ IdentityFails) => (polls = <<>> /\ conn = "none" /\ tls = "idle")

C9_Witness ==
  /\ ChosenPath = "Secured"
  /\ config.server = "irc.example"
  /\ config.cert_path = "missing"
  /\ pc = "failed"
  /\ error = IoError("open")
  /\ trace = <<Event("info", "Connecting via SSL"), Event("open", "cert_path")>>

C9_WitnessIdentityRead ==
  /\ ChosenPath = "Secured"
  /\ config.cert_path = "ok"
  /\ config.client_cert_path = "unreadable"
  /\ pc = "failed"
  /\ error = IoError("read")
  /\ builder = [root |-> TRUE, identity |-> FALSE, accept_invalid_certs |-> FALSE]
  /\ NoConnect

----------------------------------------------------------------------------
(* The simulated connection *)

\* positions of the terminator characters of a text
TextTerminators(t) == {i \in 1..Len(t) : t[i] = LF}

TextTerminator(t, k) ==
  IF k = 0 THEN 0
  ELSE CHOOSE i \in TextTerminators(t) :
         Cardinality({j \in TextTerminators(t) : j < i}) = k - 1

\* the k-th terminated line of a text
TextLine(t, k) == SubSeq(t, TextTerminator(t, k - 1) + 1, TextTerminator(t, k) - 1)

\* the text with "?" for each character the encoding of the configuration lacks
AsEncoded(t) ==
  [i \in 1..Len(t) |->
     IF Encodable(encoding_from_whatwg_label(config.encoding), t[i]) THEN t[i] ELSE 63]

\* C10: the receive-next calls on a simulated connection yield, in order, the
\* terminated lines of its initial payload: the i-th call yields the i-th
\* line ("hello\n" under "utf8" yields "hello" on the first call)
C10_PayloadInOrder ==
  conn = "Mock" =>
    LET payload == AsEncoded(config.mock_initial_value) IN
    \A i \in 1..Len(received) :
      i <= Cardinality(TextTerminators(payload)) =>
        received[i] = Some(TextLine(payload, i))

\* the same, under the encodings in which the byte 0x0A is the terminator
\* character and nothing else
C10_PayloadInOrderAscii ==
  (conn = "Mock" /\ AsciiCompatible) =>
    LET payload == AsEncoded(config.mock_initial_value) IN
    /\ \A i \in 1..Len(received) :
         i <= Cardinality(TextTerminators(payload)) =>
           received[i] = Some(TextLine(payload, i))
    /\ (config.mock_initial_value = HelloLine /\ config.encoding = "utf8" /\ received # <<>>) =>
         received[1] = Some(<<104, 101, 108, 108, 111>>)

C10_WitnessHello ==
  /\ conn = "Mock"
  /\ config.mock_initial_value = HelloLine
  /\ config.encoding = "utf8"
  /\ received = <<Some(<<104, 101, 108, 108, 111>>), [tag |-> "End", data |-> <<>>]>>

----------------------------------------------------------------------------
(* The Connection in use *)

\* there is a Connection
Connected == pc = "ready" /\ conn # "none"

\* C11: whatever was received, sent and flushed, the capture view of a
\* Connection is there exactly when its variant is Mock; a plain and an
\* encrypted Connection answer None
C11_LogViewOnlyForMock ==
  Connected =>
    /\ log_view(conn, log).tag = "Some" <=> conn = "Mock"
    /\ conn \in {"Unsecured", "Secured"} => log_view(conn, log) = None
    /\ sink.op = "log_view" =>
         /\ sink.res.tag = "Some" <=> conn = "Mock"
         /\ conn # "Mock" => sink.res = None
         /\ conn = "Mock" => sink.res = Some(log)

C11_Witness ==
  /\ conn = "Secured"
  /\ sink = [op |-> "log_view", res |-> None]
  /\ Len(sent) = 2
  /\ wire # <<>>
  /\ out # <<>>
  /\ received # <<>>

C11_WitnessMock ==
  /\ conn = "Mock"
  /\ sink.op = "log_view"
  /\ sink.res = Some(<<<<65, 10>>, <<233>>>>)
  /\ received # <<>>
  /\ wire # <<>>

----------------------------------------------------------------------------
(* encode *)

EncodedHere == last.op = "encode"

\* the bytes of a text in the codec's encoding, "?" for a character it lacks
RECURSIVE BytesOf(_)
BytesOf(t) ==
  IF t = <<>> THEN <<>>
  ELSE (IF Encodable(encoding, Head(t)) THEN CharBytes(encoding, Head(t))
        ELSE CharBytes(encoding, 63)) \o BytesOf(Tail(t))

\* the sequence ends with the given bytes
EndsWith(b, tail) ==
  Len(b) >= Len(tail) /\ SubSeq(b, Len(b) - Len(tail) + 1, Len(b)) = tail

\* what an encode call put after the bytes the buffer held
Appended == SubSeq(out, Len(last.before) + 1, Len(out))

\* C12: encode leaves the bytes the output buffer held where they were and
\* puts the bytes of the text, and nothing else, after them; what it added
\* ends with the terminator (as the encoding writes it) exactly when the text
\* ends with the terminator character
C12_EncodeAppends ==
  EncodedHere =>
    /\ last.res = Unit
    /\ Len(out) >= Len(last.before)
    /\ SubSeq(out, 1, Len(last.before)) = last.before
    /\ Appended = BytesOf(last.arg)
    /\ EndsWith(Appended, CharBytes(encoding, LF)) <=>
         (last.arg # <<>> /\ last.arg[Len(last.arg)] = LF)

C12_Witness ==
  /\ EncodedHere
  /\ encoding = "utf-8"
  /\ last.before = <<65>>
  /\ last.arg = <<233>>
  /\ out = <<65, 195, 169>>

C12_WitnessTerminated ==
  /\ EncodedHere
  /\ encoding = "utf-16le"
  /\ last.before # <<>>
  /\ last.arg = <<10>>
  /\ EndsWith(out, <<10, 0>>)

----------------------------------------------------------------------------
(* Encoding in establishment and send *)

\* the bytes the simulated stream was preloaded with: what was read plus
\* what is still to be read
Preloaded == fed \o stream

\* C13: no establishment ends with the codec-failed error and no send fails:
\* the initial payload of a simulated connection and every message sent are
\* written with "?" for each character the encoding lacks
C13_EncodeNeverFails ==
  /\ error.kind # "CodecFailed"
  /\ sink.res.tag # "Err" \/ sink.op = "flush"
  /\ (ChosenPath = "Mock" /\ ~UnknownLabel /\ polls # <<>>) =>
       (pc = "ready" /\ polls = <<"Ready">> /\ Preloaded = BytesOf(config.mock_initial_value))
  /\ sink.op = "send" =>
       (sink.res = Ready /\ EndsWith(out, BytesOf(sent[Len(sent)])))

C13_Witness ==
  /\ conn = "Mock"
  /\ encoding = "windows-1252"
  /\ config.mock_initial_value = <<266, 10, 65>>
  /\ Preloaded = <<63, 10, 65>>
  /\ sink = [op |-> "send", res |-> Ready]
  /\ sent = <<<<266, 10>>>>
  /\ out = <<63, 10>>

----------------------------------------------------------------------------
(* Failure of an attempt *)

\* how often establishment did the thing
Count(ev) == Cardinality({i \in 1..Len(trace) : trace[i].ev = ev})

\* C14: an attempt resolves an address, connects and shakes hands at most
\* once each; a failure of any stage leaves it failed, with no Connection and
\* nothing done after it; the future is polled to an answer once; and what
\* the attempt yields is of the variant the configuration chose, never another
C14_FailureIsTerminal ==
  /\ [](/\ Count("resolve") <= 1
        /\ Count("tcp_connect") <= 1
        /\ Count("tls_handshake") <= 1
        /\ error # NoError <=> pc = "failed"
        /\ pc = "failed" => conn = "none"
        /\ future.variant \in {"none", ChosenPath}
        /\ conn \in {"none", ChosenPath}
        /\ \A i \in 1..(Len(polls) - 1) : polls[i] = "NotReady"
        /\ (tcp = "failed" /\ pc # "polling") => (pc = "failed" /\ error = IoError("connect"))
        /\ (tls = "failed" /\ pc # "polling") =>
             (pc = "failed" /\ error = TlsError("handshake")))
  /\ [][pc = "failed" =>
          UNCHANGED <<pc, future, tcp, tls, builder, conn, error, trace, polls, stream>>]_vars

C14_Witness ==
  /\ ChosenPath = "Secured"
  /\ pc = "failed"
  /\ error = TlsError("handshake")
  /\ tcp = "connected"
  /\ tls = "failed"
  /\ Count("tcp_connect") = 1
  /\ Count("tls_handshake") = 1
  /\ conn = "none"

C14_WitnessConnect ==
  /\ ChosenPath = "Unsecured"
  /\ pc = "failed"
  /\ error = IoError("connect")
  /\ polls = <<"NotReady", "Err">>
  /\ Count("tcp_connect") = 1

----------------------------------------------------------------------------
(* Certificate validation *)

\* establishment logged that validation is off
LoggedInsecure ==
  \E i \in 1..Len(trace) :
    /\ trace[i].ev = "info"
    /\ trace[i].arg \notin {"Connecting via SSL", "Added to trusted certificates",
                            "Using client certificate", "Connecting"}

\* C15: validation of the server certificate is off only on the encrypted
\* path with the insecure flag set, and an establishment that turned it off
\* has logged so
C15_InsecureIsLoggedOptIn ==
  /\ builder.accept_invalid_certs => (ChosenPath = "Secured" /\ config.insecure)
  /\ builder.accept_invalid_certs => LoggedInsecure

\* the half of it that the flag decides: off only when asked for, and off
\* whenever an encrypted attempt asked for it got as far as the builder
C15_OnlyWhenFlagSet ==
  /\ builder.accept_invalid_certs => (ChosenPath = "Secured" /\ config.insecure)
  /\ (ChosenPath = "Secured" /\ config.insecure /\ Happened("tcp_connect")) =>
       builder.accept_invalid_certs

C15_WitnessInsecure ==
  /\ ChosenPath = "Secured"
  /\ config.insecure
  /\ builder.accept_invalid_certs
  /\ conn = "Secured"
  /\ ~LoggedInsecure

----------------------------------------------------------------------------
(* Order of writes *)

\* the bytes of the messages, one after the other
RECURSIVE WireOf(_)
WireOf(ss) == IF ss = <<>> THEN <<>> ELSE BytesOf(Head(ss)) \o WireOf(Tail(ss))

Flushed == sink = [op |-> "flush", res |-> Ready]

\* C16: what was written to the stream, followed by what is still queued, is
\* the bytes of the messages sent, in the order of the send calls; after a
\* flush that resolved nothing is queued and all of them are on the stream
C16_WritesInSendOrder ==
  Connected =>
    /\ wire \o out = WireOf(sent)
    /\ Flushed => (out = <<>> /\ wire = WireOf(sent))
    /\ conn = "Mock" => log = sent

C16_Witness ==
  /\ conn = "Unsecured"
  /\ encoding = "utf-8"
  /\ sent = <<<<233>>, <<65, 10>>>>
  /\ Flushed
  /\ wire = <<195, 169, 65, 10>>

C16_WitnessPartial ==
  /\ conn = "Secured"
  /\ Len(sent) = 2
  /\ sink = [op |-> "flush", res |-> [tag |-> "NotReady", data |-> <<>>]]
  /\ wire # <<>>
  /\ out # <<>>

----------------------------------------------------------------------------
(* Order of the encrypted path's stages *)

\* position in the trace of the first event of the kind, 0 when there is none
First(ev) ==
  IF Happened(ev) THEN CHOOSE i \in 1..Len(trace) :
                         trace[i].ev = ev /\ \A j \in 1..(i - 1) : trace[j].ev # ev
  ELSE 0

\* C17: a TLS handshake is started only on the encrypted path, after the TCP
\* connect of the attempt succeeded, against the domain Connection::new took
\* from the configuration; an attempt whose connect is pending or has failed
\* has started none, and a failed connect ends it with the connect's error
C17_ConnectThenHandshake ==
  /\ Happened("tls_handshake") =>
       /\ ChosenPath = "Secured"
       /\ tcp = "connected"
       /\ 0 < First("tcp_connect")
       /\ First("tcp_connect") < First("tls_handshake")
       /\ trace[First("tls_handshake")].arg = config.server
       /\ future.domain = config.server
  /\ tls # "idle" <=> Happened("tls_handshake")
  /\ tcp # "connected" => (tls = "idle" /\ ~Happened("tls_handshake"))
  /\ (ChosenPath = "Secured" /\ tcp = "failed" /\ pc # "polling") =>
       (pc = "failed" /\ error = IoError("connect") /\ tls = "idle")
  /\ conn = "Secured" => (tcp = "connected" /\ tls = "done")

C17_Witness ==
  /\ conn = "Secured"
  /\ tls = "done"
  /\ trace[Len(trace)] = Event("tls_handshake", "irc.example")
  /\ polls = <<"NotReady", "NotReady", "Ready">>

C17_WitnessConnectFailed ==
  /\ ChosenPath = "Secured"
  /\ tcp = "failed"
  /\ pc = "failed"
  /\ error = IoError("connect")
  /\ ~Happened("tls_handshake")

----------------------------------------------------------------------------
(* Chunks *)

\* the frames repeated decode calls return on one buffer holding the bytes
RECURSIVE DecodeAll(_)
DecodeAll(b) ==
  LET r == decode(encoding, b) IN
  IF r.res.tag = "Some" THEN <<r.res.data>> \o DecodeAll(r.buf) ELSE <<>>

\* the bytes left when decode returns no more frames on the buffer
RECURSIVE RestAll(_)
RestAll(b) ==
  LET r == decode(encoding, b) IN
  IF r.res.tag = "Some" THEN RestAll(r.buf) ELSE r.buf

\* C18: however the bytes arrived between the decode calls, the frames
\* returned so far are the first frames of the whole stream decoded from one
\* buffer, all of them once a call returned "no frame yet"; the buffer holds
\* the bytes after the last frame returned, the unfinished frame among them
C18_ChunkingInvisible ==
  LET k == Len(frames)
      whole == DecodeAll(fed)
  IN /\ k <= Cardinality(Terminators(fed))
     /\ k <= Len(whole)
     /\ frames = SubSeq(whole, 1, k)
     /\ \A i \in 1..k : frames[i] = TextOf(Line(fed, i))
     /\ buf = After(fed, k)
     /\ EndsWith(buf, RestAll(fed))
     /\ (results # <<>> /\ results[Len(results)] = None) =>
          (frames = whole /\ buf = RestAll(fed))

C18_Witness ==
  /\ encoding = "utf-8"
  /\ fed = <<65, 10, 195>>
  /\ frames = <<<<65>>>>
  /\ results = <<None>>
  /\ buf = <<195>>

C18_WitnessCompleted ==
  /\ encoding = "utf-8"
  /\ fed = <<195, 169, 10, 65>>
  /\ frames = <<<<233>>>>
  /\ results = <<None>>
  /\ buf = <<65>>

----------------------------------------------------------------------------
(* The simulated path *)

\* C19: a simulated establishment touches no name, file or socket, and the
\* first poll of its future answers: with the Connection, or with the error
\* of an unknown label; it is never "not ready"
C19_MockResolvesAtOnce ==
  ChosenPath = "Mock" =>
    /\ polls \in {<<>>, <<"Ready">>, <<"Err">>}
    /\ pc = "polling" <=> (future.variant = "Mock" /\ polls = <<>>)
    /\ polls = <<"Ready">> <=> (pc = "ready" /\ conn = "Mock")
    /\ polls = <<"Err">> <=> pc = "failed"
    /\ trace = <<>>
    /\ ~Happened("resolve") /\ ~Happened("open") /\ ~Happened("read")
    /\ NoConnect
    /\ tls = "idle"
    /\ builder = NoBuilder

C19_Witness ==
  /\ ChosenPath = "Mock"
  /\ config.use_ssl
  /\ config.cert_path = "missing"
  /\ config.mock_initial_value = HelloLine
  /\ polls = <<"Ready">>
  /\ conn = "Mock"
  /\ stream = HelloLine

C19_WitnessErr ==
  /\ ChosenPath = "Mock"
  /\ polls = <<"Err">>
  /\ pc = "failed"
  /\ trace = <<>>

----------------------------------------------------------------------------
(* One encoding *)

\* C20: the codec of a Connection has the encoding the label of the
\* configuration resolves to, from the moment there is a Connection and for
\* good; the simulated stream was preloaded with the payload in that
\* encoding, every frame received was decoded and every message sent was
\* encoded with it
C20_OneEncoding ==
  /\ [](/\ conn = "none" => encoding = "none"
        /\ Connected =>
             /\ encoding \in Encodings
             /\ encoding = encoding_from_whatwg_label(config.encoding)
             /\ conn = "Mock" => Preloaded = BytesOf(config.mock_initial_value)
             /\ Len(frames) <= Cardinality(Terminators(fed))
             /\ \A i \in 1..Len(frames) : frames[i] = TextOf(Line(fed, i))
             /\ sink.op = "send" => EndsWith(out, BytesOf(sent[Len(sent)])))
  /\ [][encoding # "none" => encoding' = encoding]_vars

C20_Witness ==
  /\ conn = "Mock"
  /\ config.encoding = "utf-16le"
  /\ encoding = "utf-16le"
  /\ config.mock_initial_value = <<266, 10, 65>>
  /\ fed = <<10, 1, 10, 0, 65, 0>>
  /\ frames # <<>>
  /\ sink.op = "send"
  /\ sent = <<<<233>>>>
  /\ out = <<233, 0>>

====
